---- MODULE Spec2Model ----
(***************************************************************************)
(* Model of bulk_data_extraction/unbounce_connection.py: the bulk          *)
(* extraction of Page and Lead objects (class UnbounceConnection).         *)
(*                                                                         *)
(* One step of the model is one iteration of a request loop (deadline      *)
(* guard, single-page request, append, de-duplication, cursor advance,     *)
(* stop test, request counter and pause), or the straight-line code before *)
(* or after a loop.  pandas DataFrames are modelled as a set of column     *)
(* names and a sequence of rows, each row carrying its index label.        *)
(* Timestamps are the naturals 1, 2, ...; the clock counts abstract ticks. *)
(* The print statements and the print-only call_counter/page_counter are   *)
(* left out.                                                               *)
(***************************************************************************)
EXTENDS Integers, Sequences, FiniteSets, TLC

\* ------------------------------------------------------------------ bounds
\* limit='1000' of the request calls, scaled down.
LIMIT == 2
\* The request count at which the loops pause (495), scaled down.
PAUSE_AT == 3
\* Ticks per day: timedelta.seconds is the elapsed time modulo one day.
DAY == 3
\* The clock is not advanced beyond this many ticks.
MaxNow == 4

\* The number of bulk_extract calls made one after the other on a connection.
MaxCalls == 2

\* ------------------------------------------------------ values and records
\* Python's None for a date argument (timestamps are 1, 2, ...).
None == 0

\* Python's None for a list argument, and a list value.
NoneList == [none |-> TRUE, list |-> <<>>]
List(l) == [none |-> FALSE, list |-> l]
\* A list argument taken as a filter whenever it is not None.
NotNone(x) == ~x.none
\* Truth value of a list argument: None and [] are both false.
Truthy(x) == ~x.none /\ x.list # <<>>

\* Python's None for the state argument.
NoState == "None"

Range(s) == {s[i] : i \in 1..Len(s)}

Page(i, t, d, s) == [id |-> i, createdAt |-> t, domain |-> d, state |-> s]
Lead(i, t, p, v) == [id |-> i, created_at |-> t, page_id |-> p, variant_id |-> v]

PageColumns == {"id", "createdAt", "domain", "state"}
LeadColumns == {"id", "created_at", "page_id", "variant_id"}

\* The Page objects a server may hold, in ascending createdAt order.
AllPages == << Page(1, 1, "a.com", "published"),
               Page(2, 2, "b.com", "published"),
               Page(3, 2, "a.com", "unpublished"),
               Page(4, 3, "b.com", "unpublished"),
               Page(5, 4, "a.com", "published") >>

\* The Lead objects a server may hold, in ascending created_at order.
AllLeads == << Lead(1, 1, 1, "a"),
               Lead(2, 2, 1, "a"),
               Lead(4, 2, 2, "a"),
               Lead(3, 3, 1, "b") >>

\* Records an arbitrary (not collection-backed) fetch function may return:
\* two Page objects share an id, the Lead objects share all but the page_id.
AnyPages == { Page(1, 1, "a.com", "published"),
              Page(1, 2, "b.com", "unpublished"),
              Page(2, 2, "b.com", "published") }
AnyLeads == { Lead(1, 1, 1, "a"), Lead(1, 1, 2, "a") }

\* All sequences over S of length at most n.
SeqsUpTo(S, n) == UNION {[1..k -> S] : k \in 0..n}

\* Those of them in which no element occurs twice.
DistinctSeqsUpTo(S, n) ==
    {s \in SeqsUpTo(S, n) : \A i, j \in 1..Len(s) : s[i] = s[j] => i = j}

\* --------------------------------------------------------------- DataFrame
\* pd.DataFrame(): no columns, no rows.
EmptyFrame == [columns |-> {}, rows |-> <<>>]

\* pd.DataFrame(list of records): RangeIndex 0..n-1; an empty list gives a
\* frame without columns.
DataFrame(recs, cols) ==
    [columns |-> IF recs = <<>> THEN {} ELSE cols,
     rows    |-> [i \in 1..Len(recs) |-> [index |-> i - 1, rec |-> recs[i]]]]

\* df.append(other): rows of other after the rows of df, index labels kept.
FrameAppend(df, other) ==
    [columns |-> df.columns \cup other.columns, rows |-> df.rows \o other.rows]

\* The values of a record in the columns of subset.
KeyOf(r, subset) == [c \in subset |-> r[c]]

\* df.duplicated(subset, keep='first') at position i: an earlier row has the
\* same values in the columns of subset.
Duplicated(rows, subset, i) ==
    \E j \in 1..(i - 1) : KeyOf(rows[j].rec, subset) = KeyOf(rows[i].rec, subset)

\* The rows of df at the positions where the mask is as wanted.
MaskRows(rows, subset, wanted) ==
    LET F[i \in 0..Len(rows)] ==
            IF i = 0 THEN <<>>
            ELSE IF Duplicated(rows, subset, i) = wanted
                 THEN Append(F[i - 1], rows[i])
                 ELSE F[i - 1]
    IN  F[Len(rows)]

\* df[df.duplicated(subset=..., keep='first')]
DroppedRows(df, subset) ==
    [columns |-> df.columns, rows |-> MaskRows(df.rows, subset, TRUE)]

\* df.drop_duplicates(subset=..., keep='last'): the rows no later row
\* repeats.
DropDuplicatesKeepLast(df, subset) ==
    LET Last(i) == ~\E j \in (i + 1)..Len(df.rows) :
                       KeyOf(df.rows[j].rec, subset) = KeyOf(df.rows[i].rec, subset)
        F[i \in 0..Len(df.rows)] ==
            IF i = 0 THEN <<>>
            ELSE IF Last(i) THEN Append(F[i - 1], df.rows[i]) ELSE F[i - 1]
    IN  [columns |-> df.columns, rows |-> F[Len(df.rows)]]

\* df.drop_duplicates(subset=..., keep='first')
DropDuplicates(df, subset) ==
    [columns |-> df.columns, rows |-> MaskRows(df.rows, subset, FALSE)]

\* a.equals(b): same columns, same index labels, same values.
FrameEquals(a, b) == a.columns = b.columns /\ a.rows = b.rows

\* df.to_dict(orient='records')
ToDict(df) == [i \in 1..Len(df.rows) |-> df.rows[i].rec]

\* Unique key of a Page object: subset=['id'].
PageKey == {"id"}
\* Unique key of a Lead object: subset=['created_at','id','page_id','variant_id'].
LeadKey == {"created_at", "id", "page_id", "variant_id"}


\* DataFrame.rename(columns={'id': to}) on the column names.
RenameColumns(cols, to) == IF "id" \in cols THEN (cols \ {"id"}) \cup {to} ELSE cols

\* The Page record with 'id' renamed to 'page_id'.
RenamePage(r) ==
    [page_id |-> r.id, createdAt |-> r.createdAt, domain |-> r.domain, state |-> r.state]

\* The rename that writes the Lead object's id over its page_id as well.
RenameLeadOverParent(r) ==
    [lead_id |-> r.id, created_at |-> r.created_at, page_id |-> r.id,
     variant_id |-> r.variant_id]

\* The Lead record with 'id' renamed to 'lead_id'.
RenameLead(r) ==
    [lead_id |-> r.id, created_at |-> r.created_at, page_id |-> r.page_id,
     variant_id |-> r.variant_id]

\* ------------------------------------------------------------------ server
\* A record created at t lies in the requested range: _from is inclusive,
\* to is exclusive, None is no bound.
InRange(t, from, to) == (from = None \/ t >= from) /\ (to = None \/ t < to)

\* The first n elements of s.
Take(s, n) == SubSeq(s, 1, IF Len(s) < n THEN Len(s) ELSE n)

\* What a collection-backed server answers to get_pages(_from, to, limit):
\* the first at most LIMIT Page objects of the range, ascending.
PagesOfRange(coll, from, to) ==
    Take(SelectSeq(coll, LAMBDA r : InRange(r.createdAt, from, to)), LIMIT)

\* What a collection-backed server answers to get_page_leads(page_id, _from,
\* to, limit): the first at most LIMIT Lead objects of that Page in the range.
LeadsOfRange(coll, page_id, from, to) ==
    Take(SelectSeq(coll, LAMBDA r : r.page_id = page_id
                                    /\ InRange(r.created_at, from, to)), LIMIT)

\* The collections a server may hold: any subset, in ascending order.
PageCollections ==
    {SelectSeq(AllPages, LAMBDA r : r.id \in S) : S \in SUBSET {1, 2, 3, 4, 5}}
\* The Page collections considered when Lead objects are extracted.
ParentCollections ==
    {SelectSeq(AllPages, LAMBDA r : r.id \in S) : S \in SUBSET {1, 2, 3}}
LeadCollections ==
    {SelectSeq(AllLeads, LAMBDA r : r.id \in S) : S \in {{}, {1, 4}, {1, 2, 3}, {1, 2, 3, 4}}}

\* ------------------------------------------------------------------- state
VARIABLES
    extract_timeout_time,  \* self.extract_timeout_time, set by __init__
    now,                   \* datetime.now(), in ticks
    srv,                   \* the Unbounce server behind self.client
    pc,                    \* where the running bulk extraction stands
    pg,                    \* the local variables of bulk_get_pages
    ld,                    \* the local variables of bulk_get_leads
    outcome,               \* how the extraction ended: returned, or the error raised
    result,                \* the list returned to the caller
    log,                   \* the requests issued and the pauses taken, in order
    late,                  \* a request was issued with more than the timeout elapsed
    call                   \* the bulk_extract call in progress: its arguments, its
                           \* number on the connection, the time and the length of
                           \* the log when it was made

vars == <<extract_timeout_time, now, srv, pc, pg, ld, outcome, result, log, late, call>>

\* The durations of a single-page request considered (in ticks).
Durations == {0, 1, 2}

\* The configured bulk-extract timeouts considered (in ticks).
Timeouts == {1, DAY}

\* The arguments considered.
DateStarts == {None, 2}
DateEnds == {None, 3}
DomainLists == {NoneList, List(<<"a.com">>)}
PageIdLists == {NoneList, List(<<3, 1>>)}
States == {NoState, "published"}
LeadIdLists == {NoneList, List(<<1, 4>>)}
LeadPageIdLists == {NoneList, List(<<1>>), List(<<2, 1>>)}

IdlePages ==
    [caller |-> "none", START_TIME |-> 0, date_start |-> None, date_end |-> None,
     domain_list |-> NoneList, page_id_list |-> NoneList, state |-> NoState,
     pages_df |-> EmptyFrame, cont |-> TRUE, itr |-> 0, ret |-> <<>>]

IdleLeads ==
    [START_TIME |-> 0, OG_DATE_START |-> None, date_start |-> None, date_end |-> None,
     lead_id_list |-> NoneList, page_id_list |-> NoneList, leads_df |-> EmptyFrame,
     page_ids_all |-> [kind |-> "none", vals |-> <<>>], next |-> 0, page_id |-> 0,
     cont |-> TRUE, itr |-> 0]

IdleServer ==
    [pagesMode |-> "collection", pages |-> <<>>, leadsMode |-> "collection", leads |-> <<>>]

\* No bulk_extract call was made.
NoCall == [extract_obj |-> "none", filters |-> [type |-> "NoneType"], n |-> 0, at |-> 0, mark |-> 0]

\* __init__: the timeouts are stored, nothing is running.
Init ==
    /\ extract_timeout_time \in Timeouts
    /\ now = 0
    /\ srv = IdleServer
    /\ pc = "idle"
    /\ pg = IdlePages
    /\ ld = IdleLeads
    /\ outcome = "none"
    /\ result = <<>>
    /\ log = <<>>
    /\ late = FALSE
    /\ call = NoCall

\* ------------------------------------------------- deadline guard and pause
\* time.sleep(60), in ticks.
SLEEP == 1

\* timedelta.seconds of a non-negative duration: the seconds within the day.
Seconds(delta) == delta % DAY

\* (datetime.now() - START_TIME).seconds > self.extract_timeout_time
DeadlineExceeded(START_TIME) == Seconds(now - START_TIME) > extract_timeout_time

\* The threshold compared with the counter before the increment is added.
PausesLate(itr) == itr = PAUSE_AT

\* itr += 1; if itr == 495: time.sleep(60); itr = 0
Pauses(itr) == itr + 1 = PAUSE_AT
NextItr(itr) == IF Pauses(itr) THEN 0 ELSE itr + 1

\* Entries of the log.
Request(ep, page_id, from, to, resp, ok) ==
    [ep |-> ep, page_id |-> page_id, from |-> from, to |-> to, resp |-> resp, ok |-> ok]
SleepEntry == Request("sleep", 0, None, None, <<>>, TRUE)

\* The log after a request that completed the loop body (paused: the body
\* ended in the pause).
Logged(entry, paused) ==
    IF paused THEN log \o <<entry, SleepEntry>> ELSE Append(log, entry)

\* The time elapsed since the running bulk extraction was started by its
\* caller exceeds the timeout.
Overdue == now - (IF pg.caller = "leads" \/ pc = "leads_while" THEN ld.START_TIME
                  ELSE pg.START_TIME) > extract_timeout_time

\* The exception caught where it is raised and the pass of the loop taken
\* again.
Retried(at) == at

\* An exception raised at a position of a method (raise RecursionError, or
\* the exception of the client's get method) is caught nowhere: control
\* leaves the loops and the methods, the call ends in the exception.
Propagated(at) == "done"

\* ---------------------------------------------------------- bulk_get_pages
\* The append without the drop_duplicates.
PagesAppended(pages_df, new_pages_df) == FrameAppend(pages_df, new_pages_df)

\* pages_df after the append and drop_duplicates of one loop body.
PagesDeduplicated(pages_df, new_pages_df) ==
    DropDuplicates(FrameAppend(pages_df, new_pages_df), PageKey)

\* pages_dropped of one loop body.
PagesDropped(pages_df, new_pages_df) ==
    DroppedRows(FrameAppend(pages_df, new_pages_df), PageKey)

\* The cursor taken from the first instead of the last record of the page.
PagesCursorFirst(pages) == pages[1].createdAt

\* date_start = pages_meta_data['pages'][-1]['createdAt']
PagesCursor(pages) == pages[Len(pages)].createdAt

\* The loop also stopped by a page shorter than the request limit.
PagesNoNetNewOrShort(new_pages_df, pages_dropped) ==
    FrameEquals(new_pages_df, pages_dropped) \/ Len(new_pages_df.rows) < LIMIT

\* The stop test made against frames that were re-indexed by the append
\* (ignore_index=True): the index labels of the dropped rows never match.
PagesNoNetNewReindexed(new_pages_df, pages_dropped) ==
    FrameEquals(new_pages_df,
                [pages_dropped EXCEPT !.rows =
                    [i \in 1..Len(pages_dropped.rows) |->
                        [pages_dropped.rows[i] EXCEPT
                            !.index = Len(new_pages_df.rows) + pages_dropped.rows[i].index]]])

\* new_pages_df.equals(pages_dropped)
PagesNoNetNew(new_pages_df, pages_dropped) == FrameEquals(new_pages_df, pages_dropped)

\* The answers get_pages may give.
PagesResponses(from, to) ==
    IF srv.pagesMode = "collection" THEN {PagesOfRange(srv.pages, from, to)}
    ELSE SeqsUpTo(AnyPages, LIMIT)

\* The method entered with the start time, the frame and the counter left
\* by the call before.
ReenterPages(caller, date_start, date_end, domain_list, page_id_list, state) ==
    [pg EXCEPT !.caller = caller, !.date_start = date_start, !.date_end = date_end,
               !.domain_list = domain_list, !.page_id_list = page_id_list,
               !.state = state, !.cont = TRUE]

\* Lines 129-147: the method is entered, its locals are initialised.
EnterPages(caller, date_start, date_end, domain_list, page_id_list, state) ==
    [caller |-> caller, START_TIME |-> now, date_start |-> date_start,
     date_end |-> date_end, domain_list |-> domain_list,
     page_id_list |-> page_id_list, state |-> state, pages_df |-> EmptyFrame,
     cont |-> TRUE, itr |-> 0, ret |-> <<>>]

\* A caller invokes bulk_get_pages; the server holds some collection, or
\* answers arbitrarily.
BulkGetPages ==
    /\ pc = "idle"
    /\ \E date_start \in DateStarts, date_end \in DateEnds, domain_list \in DomainLists,
          page_id_list \in PageIdLists, state \in States :
          /\ pg' = EnterPages("user", date_start, date_end, domain_list, page_id_list, state)
          /\ \/ \E coll \in PageCollections :
                   srv' = [IdleServer EXCEPT !.pages = coll]
             \/ /\ date_start = None /\ date_end = None
                /\ domain_list = NoneList /\ page_id_list = NoneList /\ state = NoState
                /\ srv' = [IdleServer EXCEPT !.pagesMode = "any"]
    /\ pc' = "pages_while"
    /\ UNCHANGED <<extract_timeout_time, now, ld, outcome, result, log, late, call>>

\* One pass of the while loop of bulk_get_pages (lines 153-211) in which the
\* request is answered.
PagesRequest ==
    /\ pc = "pages_while"
    /\ IF DeadlineExceeded(pg.START_TIME)
       THEN /\ pc' = Propagated(pc)
            /\ outcome' = "RecursionError"
            /\ UNCHANGED <<now, pg, log, late>>
       ELSE \E dur \in Durations, pages \in PagesResponses(pg.date_start, pg.date_end) :
            LET entry == Request("pages", 0, pg.date_start, pg.date_end, pages, TRUE)
                new_pages_df == DataFrame(pages, PageColumns)
                pages_dropped == PagesDropped(pg.pages_df, new_pages_df)
                cont == ~PagesNoNetNew(new_pages_df, pages_dropped)
                paused == pages # <<>> /\ Pauses(pg.itr)
            IN  /\ now' = now + dur + (IF paused THEN SLEEP ELSE 0)
                /\ now' <= MaxNow
                /\ late' = (late \/ Overdue)
                /\ log' = Logged(entry, paused)
                /\ outcome' = outcome
                /\ IF pages = <<>>
                   THEN /\ pg' = pg
                        /\ pc' = "pages_tail"
                   ELSE /\ pg' = [pg EXCEPT
                                    !.pages_df = PagesDeduplicated(pg.pages_df, new_pages_df),
                                    !.date_start = PagesCursor(pages),
                                    !.cont = cont,
                                    !.itr = NextItr(pg.itr)]
                        /\ pc' = IF cont THEN "pages_while" ELSE "pages_tail"
    /\ UNCHANGED <<extract_timeout_time, srv, ld, result, call>>

\* The request of a pass fails in the client: the error propagates.
PagesRequestFails ==
    /\ pc = "pages_while"
    /\ ~DeadlineExceeded(pg.START_TIME)
    /\ late' = (late \/ Overdue)
    /\ log' = Append(log, Request("pages", 0, pg.date_start, pg.date_end, <<>>, FALSE))
    /\ pc' = Propagated(pc)
    /\ outcome' = "UpstreamError"
    /\ UNCHANGED <<extract_timeout_time, now, srv, pg, ld, result, call>>

\* pages_df['domain'], ['page_id'], ['state'] of the filters: the column
\* looked up by the first filter that is applied, "" if none is.
PagesFilterColumns(domain_list, page_id_list, state) ==
    (IF Truthy(domain_list) THEN {"domain"} ELSE {})
    \cup (IF Truthy(page_id_list) THEN {"page_id"} ELSE {})
    \cup (IF state # NoState THEN {"state"} ELSE {})

\* Lines 219-228: the rows that pass every filter that is applied.
PagesKept(r, domain_list, page_id_list, state) ==
    /\ Truthy(domain_list) => r.domain \in Range(domain_list.list)
    /\ Truthy(page_id_list) => r.page_id \in Range(page_id_list.list)
    /\ state # NoState => r.state = state

\* Lines 213-215: pages_df.rename(columns={'id': 'page_id'}).
PagesRenamed(pages_df) ==
    [columns |-> RenameColumns(pages_df.columns, "page_id"),
     rows |-> [i \in 1..Len(pages_df.rows) |->
                  [index |-> pages_df.rows[i].index, rec |-> RenamePage(pages_df.rows[i].rec)]]]

\* Lines 213-239: rename, filters, to_dict, return.  A filter on a frame
\* that lacks the column raises KeyError.
PagesTail ==
    /\ pc = "pages_tail"
    /\ LET renamed == PagesRenamed(pg.pages_df)
           wanted == PagesFilterColumns(pg.domain_list, pg.page_id_list, pg.state)
           filtered == [renamed EXCEPT !.rows = SelectSeq(renamed.rows,
                           LAMBDA row : PagesKept(row.rec, pg.domain_list, pg.page_id_list,
                                                  pg.state))]
           pages_list == ToDict(filtered)
       IN  IF ~(wanted \subseteq renamed.columns)
           THEN /\ pc' = "done"
                /\ outcome' = "KeyError"
                /\ UNCHANGED <<pg, result>>
           ELSE IF pg.caller = "user"
           THEN /\ pc' = "done"
                /\ outcome' = "returned"
                /\ result' = pages_list
                /\ pg' = pg
           ELSE /\ pc' = "leads_resolve"
                /\ pg' = [pg EXCEPT !.ret = pages_list]
                /\ UNCHANGED <<outcome, result>>
    /\ UNCHANGED <<extract_timeout_time, now, srv, ld, log, late, call>>

\* ---------------------------------------------------------- bulk_get_leads
LeadsDeduplicated(leads_df, new_leads_df) ==
    DropDuplicates(FrameAppend(leads_df, new_leads_df), LeadKey)

LeadsDropped(leads_df, new_leads_df) ==
    DroppedRows(FrameAppend(leads_df, new_leads_df), LeadKey)

\* The cursor taken from the first record of the page instead.
LeadsCursorFirst(leads) == leads[1].created_at

\* date_start = leads_meta_data['leads'][-1]['created_at']
LeadsCursor(leads) == leads[Len(leads)].created_at

\* new_leads_df.equals(leads_dropped)
LeadsNoNetNew(new_leads_df, leads_dropped) == FrameEquals(new_leads_df, leads_dropped)

\* The answers get_page_leads may give.
LeadsResponses(page_id, from, to) ==
    IF srv.leadsMode = "collection" THEN {LeadsOfRange(srv.leads, page_id, from, to)}
    ELSE DistinctSeqsUpTo(AnyLeads, LIMIT)

\* page_ids_all.empty: a pandas Series has the attribute, a list has not.
HasEmpty(page_ids_all) == page_ids_all.kind = "Series"

\* Lines 275-287: the method is entered, its locals are initialised.
EnterLeads(date_start, date_end, lead_id_list, page_id_list) ==
    [IdleLeads EXCEPT !.START_TIME = now, !.OG_DATE_START = date_start,
                      !.date_start = date_start, !.date_end = date_end,
                      !.lead_id_list = lead_id_list, !.page_id_list = page_id_list]

\* The lookup of the Page IDs started at the caller's date_start.
LookupFromDateStart(date_start) == date_start

\* self.bulk_get_pages(date_end=date_end) (line 298): date_start is not
\* passed and takes its default, None.
LookupDateStart(date_start) == None

\* Lines 275-303 of bulk_get_leads.  With a Page ID list the list itself
\* becomes page_ids_all and the test of page_ids_all.empty raises
\* AttributeError; without, bulk_get_pages(date_end=date_end) is entered.
LeadsEntry(date_start, date_end, lead_id_list, page_id_list) ==
    LET entered == EnterLeads(date_start, date_end, lead_id_list, page_id_list)
        given == [kind |-> "list", vals |-> page_id_list.list]
    IN  IF Truthy(page_id_list)
        THEN /\ ld' = [entered EXCEPT !.page_ids_all = given]
             /\ IF HasEmpty(given)
                THEN /\ pc' = IF given.vals = <<>> THEN "done" ELSE "leads_for"
                     /\ outcome' = IF given.vals = <<>> THEN "returned" ELSE "none"
                ELSE /\ pc' = "done"
                     /\ outcome' = "AttributeError"
             /\ pg' = pg
        ELSE /\ ld' = entered
             /\ pg' = EnterPages("leads", LookupDateStart(date_start), date_end,
                                 NoneList, NoneList, NoState)
             /\ pc' = "pages_while"
             /\ outcome' = "none"

\* A caller invokes bulk_get_leads; the server holds some collections, or
\* answers the requests for Lead objects arbitrarily.
BulkGetLeads ==
    /\ pc = "idle"
    /\ \E date_start \in DateStarts, date_end \in DateEnds, lead_id_list \in LeadIdLists,
          page_id_list \in LeadPageIdLists :
          /\ LeadsEntry(date_start, date_end, lead_id_list, page_id_list)
          /\ IF Truthy(page_id_list)
             THEN srv' = [IdleServer EXCEPT !.pages = AllPages, !.leads = AllLeads]
             ELSE \/ \E pages \in ParentCollections, leads \in LeadCollections :
                        srv' = [IdleServer EXCEPT !.pages = pages, !.leads = leads]
                  \/ /\ date_start = None /\ date_end = None /\ lead_id_list = NoneList
                     /\ srv' = [IdleServer EXCEPT !.pages = SubSeq(AllPages, 1, 2),
                                                  !.leadsMode = "any"]
    /\ UNCHANGED <<extract_timeout_time, now, result, log, late, call>>

\* Lines 298-310 after bulk_get_pages returned: the 'page_id' column of the
\* frame made of the returned list (KeyError if the list is empty, as the
\* frame then has no columns), the test of .empty, itr = 0.
LeadsResolve ==
    /\ pc = "leads_resolve"
    /\ LET frame == DataFrame(pg.ret, RenameColumns(PageColumns, "page_id"))
           series == [kind |-> "Series",
                      vals |-> [i \in 1..Len(pg.ret) |-> pg.ret[i].page_id]]
       IN  IF "page_id" \notin frame.columns
           THEN /\ pc' = "done"
                /\ outcome' = "KeyError"
                /\ ld' = ld
           ELSE IF series.vals = <<>>
           THEN /\ pc' = "done"
                /\ outcome' = "returned"
                /\ ld' = [ld EXCEPT !.page_ids_all = series]
           ELSE /\ pc' = "leads_for"
                /\ outcome' = outcome
                /\ ld' = [ld EXCEPT !.page_ids_all = series, !.itr = 0]
    /\ UNCHANGED <<extract_timeout_time, now, srv, pg, result, log, late, call>>

\* The starting date left as the previous Page ID's loop advanced it.
CarriedDateStart(l) == l.date_start

\* The starting date of the first request for a Page ID: date_start =
\* OG_DATE_START (line 321).
FirstDateStart(l) == l.OG_DATE_START

\* The counter set back to 0 when the for loop moves to the next Page ID.
ItrReset(l) == 0

\* itr at the head of the for loop: initialised before the loop (line 308),
\* it is left as the previous Page ID's passes left it.
ItrOfNextParent(l) == l.itr

\* The Page IDs taken from the end of page_ids_all.
NextParentFromEnd(l) == l.page_ids_all.vals[Len(l.page_ids_all.vals) - l.next]

\* for page_id in page_ids_all (line 314): the element after those already
\* iterated.
NextParent(l) == l.page_ids_all.vals[l.next + 1]

\* The head of the for loop (lines 314-328): the next Page ID, or the end
\* of the loop.
LeadsFor ==
    /\ pc = "leads_for"
    /\ IF ld.next < Len(ld.page_ids_all.vals)
       THEN /\ ld' = [ld EXCEPT !.next = ld.next + 1,
                                !.page_id = NextParent(ld),
                                !.cont = TRUE,
                                !.date_start = FirstDateStart(ld),
                                !.itr = ItrOfNextParent(ld)]
            /\ pc' = "leads_while"
       ELSE /\ ld' = ld
            /\ pc' = "leads_tail"
    /\ UNCHANGED <<extract_timeout_time, now, srv, pg, outcome, result, log, late, call>>

\* An empty page taken as the end of the whole for loop.
FanOutEnded(at) == "leads_tail"

\* if leads_meta_data['leads'] == []: break (lines 357-359): the while loop
\* is left, control is at the head of the for loop again.
AfterEmptyPage(at) == "leads_for"

\* One pass of the while loop of bulk_get_leads (lines 334-390) in which the
\* request is answered.
LeadsRequest ==
    /\ pc = "leads_while"
    /\ IF DeadlineExceeded(ld.START_TIME)
       THEN /\ pc' = Propagated(pc)
            /\ outcome' = "RecursionError"
            /\ UNCHANGED <<now, ld, log, late>>
       ELSE \E dur \in Durations, leads \in LeadsResponses(ld.page_id, ld.date_start, ld.date_end) :
            LET entry == Request("leads", ld.page_id, ld.date_start, ld.date_end, leads, TRUE)
                new_leads_df == DataFrame(leads, LeadColumns)
                leads_dropped == LeadsDropped(ld.leads_df, new_leads_df)
                cont == ~LeadsNoNetNew(new_leads_df, leads_dropped)
                paused == leads # <<>> /\ Pauses(ld.itr)
            IN  /\ now' = now + dur + (IF paused THEN SLEEP ELSE 0)
                /\ now' <= MaxNow
                /\ late' = (late \/ Overdue)
                /\ log' = Logged(entry, paused)
                /\ outcome' = outcome
                /\ IF leads = <<>>
                   THEN /\ ld' = ld
                        /\ pc' = AfterEmptyPage(pc)
                   ELSE /\ ld' = [ld EXCEPT
                                    !.leads_df = LeadsDeduplicated(ld.leads_df, new_leads_df),
                                    !.date_start = LeadsCursor(leads),
                                    !.cont = cont,
                                    !.itr = NextItr(ld.itr)]
                        /\ pc' = IF cont THEN "leads_while" ELSE "leads_for"
    /\ UNCHANGED <<extract_timeout_time, srv, pg, result, call>>

\* The request of a pass fails in the client: the error propagates.
LeadsRequestFails ==
    /\ pc = "leads_while"
    /\ ~DeadlineExceeded(ld.START_TIME)
    /\ late' = (late \/ Overdue)
    /\ log' = Append(log, Request("leads", ld.page_id, ld.date_start, ld.date_end, <<>>, FALSE))
    /\ pc' = Propagated(pc)
    /\ outcome' = "UpstreamError"
    /\ UNCHANGED <<extract_timeout_time, now, srv, pg, ld, result, call>>

\* Lines 392-394: leads_df.rename(columns={'id': 'lead_id'}).
LeadsRenamed(leads_df) ==
    [columns |-> RenameColumns(leads_df.columns, "lead_id"),
     rows |-> [i \in 1..Len(leads_df.rows) |->
                  [index |-> leads_df.rows[i].index, rec |-> RenameLead(leads_df.rows[i].rec)]]]

\* Lines 399-401: the rows that pass the Lead ID filter, if it is applied.
LeadsKept(r, lead_id_list) ==
    Truthy(lead_id_list) => r.lead_id \in Range(lead_id_list.list)

\* Lines 392-412: rename, filter, to_dict, return.  The filter on a frame
\* without columns raises KeyError.
LeadsTail ==
    /\ pc = "leads_tail"
    /\ LET renamed == LeadsRenamed(ld.leads_df)
           filtered == [renamed EXCEPT !.rows = SelectSeq(renamed.rows,
                           LAMBDA row : LeadsKept(row.rec, ld.lead_id_list))]
           leads_list == ToDict(filtered)
       IN  IF Truthy(ld.lead_id_list) /\ "lead_id" \notin renamed.columns
           THEN /\ outcome' = "KeyError"
                /\ result' = result
           ELSE /\ outcome' = "returned"
                /\ result' = leads_list
    /\ pc' = "done"
    /\ UNCHANGED <<extract_timeout_time, now, srv, pg, ld, log, late, call>>

\* ------------------------------------------------- bulk_extract, validation
\* Python values passed in the filters argument: strings, lists, integers
\* and dictionaries (functions from their keys).
PyStr(v) == [type |-> "str", val |-> v]
PyList(l) == [type |-> "list", val |-> l]
PyInt(n) == [type |-> "int", val |-> n]
PyDict(f) == [type |-> "dict", val |-> f]

\* The dictionary of the keys of a record of options whose option is taken.
Absent == [type |-> "absent", val |-> 0]
DictOf(options) ==
    PyDict([k \in {o \in DOMAIN options : options[o].type # "absent"} |-> options[k]])

\* The text of a string given as a date: of the form '%Y-%m-%d', naming a
\* day, or of another form.
DateText(day) == [matches |-> TRUE, day |-> day]
OtherText == [matches |-> FALSE, day |-> 0]

\* datetime.strptime(value, '%Y-%m-%d') inside try/except: the day parsed,
\* or the failure (no string, or a string of another form).
Strptime(v) ==
    IF v.type = "str" /\ v.val.matches
    THEN [ok |-> TRUE, day |-> v.val.day]
    ELSE [ok |-> FALSE, day |-> 0]

\* value + 'T00:00:00.000Z': the timestamp of the start of the day, in the
\* unit of createdAt.
Midnight(v) == v.val.day

\* The range check with the test for a range of 0 days left out.
RangeRejectedIfInverted(days) == days < 0

\* Lines 494-499: (datetime_end - datetime_start).days == 0, then < 0.
RangeRejected(days) == days = 0 \/ days < 0

\* What a processing method hands on: the exception raised, or the
\* arguments for the bulk getter.
Raised(error) ==
    [error |-> error, date_start |-> None, date_end |-> None, domain_list |-> NoneList,
     page_id_list |-> NoneList, lead_id_list |-> NoneList, state |-> NoState]
Processed(date_start, date_end, domain_list, page_id_list, lead_id_list, state) ==
    [error |-> "none", date_start |-> date_start, date_end |-> date_end,
     domain_list |-> domain_list, page_id_list |-> page_id_list,
     lead_id_list |-> lead_id_list, state |-> state]

\* process_date_range (lines 440-506).
process_date_range(date_range) ==
    IF date_range.type # "dict" THEN Raised("TypeError")
    ELSE IF ~(DOMAIN date_range.val \subseteq {"date_start", "date_end"})
    THEN Raised("ValueError")
    ELSE LET has_start == "date_start" \in DOMAIN date_range.val
             has_end == "date_end" \in DOMAIN date_range.val
             datetime_start == IF has_start THEN Strptime(date_range.val["date_start"])
                               ELSE [ok |-> TRUE, day |-> 0]
             datetime_end == IF has_end THEN Strptime(date_range.val["date_end"])
                             ELSE [ok |-> TRUE, day |-> 0]
         IN  IF ~datetime_start.ok \/ ~datetime_end.ok THEN Raised("ValueError")
             ELSE IF has_start /\ has_end
                     /\ RangeRejected(datetime_end.day - datetime_start.day)
             THEN Raised("ValueError")
             ELSE Processed(IF has_start THEN Midnight(date_range.val["date_start"]) ELSE None,
                            IF has_end THEN Midnight(date_range.val["date_end"]) ELSE None,
                            NoneList, NoneList, NoneList, NoState)

\* The list made of an id or domain filter value: [value] of a string, the
\* list itself of a list (lines 566-581, 587-602, 690-705, 711-726).
IsStrOrList(v) == v.type \in {"str", "list"}
AsList(v) == IF v.type = "str" THEN List(<<v.val>>) ELSE List(v.val)

\* Every value is taken as a state.
AnyStateAccepted(v) == TRUE

\* filters['state'] in ['published', 'unpublished'] (line 613).
StateAccepted(v) == v.type = "str" /\ v.val \in {"published", "unpublished"}

\* The filters of one key after the type check, None if the key is absent.
ListOf(filters, key) ==
    IF key \in DOMAIN filters.val THEN AsList(filters.val[key]) ELSE NoneList

\* The checks of process_bulk_pages (lines 530-628), in their order.
process_bulk_pages(filters) ==
    IF filters.type # "dict" THEN Raised("TypeError")
    ELSE IF ~(DOMAIN filters.val \subseteq {"created_at", "domain", "page_id", "state"})
    THEN Raised("ValueError")
    ELSE LET has(key) == key \in DOMAIN filters.val
             dates == IF has("created_at") THEN process_date_range(filters.val["created_at"])
                      ELSE Processed(None, None, NoneList, NoneList, NoneList, NoState)
         IN  IF dates.error # "none" THEN dates
             ELSE IF has("domain") /\ ~IsStrOrList(filters.val["domain"])
             THEN Raised("TypeError")
             ELSE IF has("page_id") /\ ~IsStrOrList(filters.val["page_id"])
             THEN Raised("TypeError")
             ELSE IF has("state") /\ ~StateAccepted(filters.val["state"])
             THEN Raised("ValueError")
             ELSE Processed(dates.date_start, dates.date_end, ListOf(filters, "domain"),
                            ListOf(filters, "page_id"), NoneList,
                            IF has("state") THEN filters.val["state"].val ELSE NoState)

\* The checks of process_bulk_leads (lines 656-737), in their order.
process_bulk_leads(filters) ==
    IF filters.type # "dict" THEN Raised("TypeError")
    ELSE IF ~(DOMAIN filters.val \subseteq {"created_at", "lead_id", "page_id"})
    THEN Raised("ValueError")
    ELSE LET has(key) == key \in DOMAIN filters.val
             dates == IF has("created_at") THEN process_date_range(filters.val["created_at"])
                      ELSE Processed(None, None, NoneList, NoneList, NoneList, NoState)
         IN  IF dates.error # "none" THEN dates
             ELSE IF has("lead_id") /\ ~IsStrOrList(filters.val["lead_id"])
             THEN Raised("TypeError")
             ELSE IF has("page_id") /\ ~IsStrOrList(filters.val["page_id"])
             THEN Raised("TypeError")
             ELSE Processed(dates.date_start, dates.date_end, NoneList,
                            ListOf(filters, "page_id"), ListOf(filters, "lead_id"), NoState)

\* bulk_extract(extract_obj, filters) (lines 800-824) up to the first pass
\* of a loop: the object type is checked, the filters are processed, the
\* bulk getter is entered.  The server holds the given collections.
bulk_extract(extract_obj, filters, pages, leads) ==
    LET args == IF extract_obj = "pages" THEN process_bulk_pages(filters)
                ELSE process_bulk_leads(filters)
    IN  /\ call' = [extract_obj |-> extract_obj, filters |-> filters, n |-> call.n + 1,
                    at |-> now, mark |-> Len(log)]
        /\ srv' = [IdleServer EXCEPT !.pages = pages, !.leads = leads]
        /\ result' = <<>>
        /\ late' = FALSE
        /\ IF extract_obj \notin {"pages", "leads"}
           THEN /\ pc' = "done"
                /\ outcome' = "ValueError"
                /\ UNCHANGED <<pg, ld>>
           ELSE IF args.error # "none"
           THEN /\ pc' = "done"
                /\ outcome' = args.error
                /\ UNCHANGED <<pg, ld>>
           ELSE IF extract_obj = "pages"
           THEN /\ pg' = EnterPages("user", args.date_start, args.date_end, args.domain_list,
                                    args.page_id_list, args.state)
                /\ pc' = "pages_while"
                /\ outcome' = "none"
                /\ ld' = ld
           ELSE LeadsEntry(args.date_start, args.date_end, args.lead_id_list,
                           args.page_id_list)
        /\ UNCHANGED <<extract_timeout_time, now, log>>

\* The values of the filters considered, key by key.
CreatedAtStarts == {Absent, PyStr(DateText(2)), PyStr(DateText(3)), PyStr(OtherText)}
CreatedAtEnds == {Absent, PyStr(DateText(3)), PyStr(DateText(2)), PyInt(3)}
CreatedAtValues ==
    {Absent, PyStr(DateText(2))}
    \cup {DictOf([date_start |-> s, date_end |-> e, date |-> o]) :
             s \in CreatedAtStarts, e \in CreatedAtEnds, o \in {Absent, PyStr(DateText(2))}}
DomainValues == {Absent, PyStr("a.com"), PyList(<<>>), PyInt(1)}
PageIdValues == {Absent, PyList(<<3, 1>>), PyList(<<>>), PyInt(1)}
StateValues == {Absent, PyStr("published"), PyStr("deleted")}
LeadIdValues == {Absent, PyStr(1), PyList(<<>>), PyInt(1)}
FiltersValues ==
    {PyList(<<>>)}
    \cup {DictOf([created_at |-> c, domain |-> d, page_id |-> p, state |-> s, lead_id |-> l,
                  id |-> o]) :
             c \in CreatedAtValues, d \in DomainValues, p \in PageIdValues,
             s \in StateValues, l \in LeadIdValues, o \in {Absent, PyStr(1)}}
ExtractObjs == {"pages", "leads", "forms"}

\* A caller invokes bulk_extract on an account of three Page objects and
\* their Lead objects.
BulkExtract ==
    /\ pc = "idle"
    /\ \E extract_obj \in ExtractObjs, filters \in FiltersValues :
          bulk_extract(extract_obj, filters, SubSeq(AllPages, 1, 3), AllLeads)

\* The filters of the calls made one after the other on one connection.
AgainFilters ==
    {DictOf([created_at |-> c]) :
        c \in {Absent, DictOf([date_start |-> PyStr(DateText(2))])}}

\* A caller invokes bulk_extract on the connection, for the first time or
\* after an earlier call has ended.
BulkExtractAgain ==
    /\ pc \in {"idle", "done"}
    /\ call.n < MaxCalls
    /\ \E extract_obj \in {"pages", "leads"}, filters \in AgainFilters :
          bulk_extract(extract_obj, filters, SubSeq(AllPages, 1, 3), AllLeads)

Next ==
    \/ BulkGetPages
    \/ PagesRequest
    \/ PagesRequestFails
    \/ PagesTail
    \/ BulkGetLeads
    \/ LeadsResolve
    \/ LeadsFor
    \/ LeadsRequest
    \/ LeadsRequestFails
    \/ LeadsTail
    \/ BulkExtract

Spec == Init /\ [][Next]_vars

\* Successive calls of bulk_extract on one connection.
NextAgain ==
    \/ BulkExtractAgain
    \/ PagesRequest
    \/ PagesRequestFails
    \/ PagesTail
    \/ LeadsResolve
    \/ LeadsFor
    \/ LeadsRequest
    \/ LeadsRequestFails
    \/ LeadsTail

AgainSpec == Init /\ [][NextAgain]_vars

\* ----------------------------------------------------- reading of the log
\* The requests of one endpoint, in the order issued.
RequestsTo(ep) == SelectSeq(log, LAMBDA e : e.ep = ep)
PageRequests == RequestsTo("pages")
LeadRequests == RequestsTo("leads")

\* The records of a frame, as a set.
Records(df) == {df.rows[i].rec : i \in 1..Len(df.rows)}

\* The keys of the rows of a frame are pairwise distinct.
UniqueKeys(rows, subset) ==
    \A i, j \in 1..Len(rows) :
        KeyOf(rows[i].rec, subset) = KeyOf(rows[j].rec, subset) => i = j

\* Fewer than LIMIT of the given timestamps are equal to any one of them.
FewTies(stamps) ==
    \A i \in 1..Len(stamps) :
        Cardinality({j \in 1..Len(stamps) : stamps[j] = stamps[i]}) < LIMIT

PageStamps == [i \in 1..Len(srv.pages) |-> srv.pages[i].createdAt]
LeadStamps(page_id) ==
    LET of == SelectSeq(srv.leads, LAMBDA r : r.page_id = page_id)
    IN  [i \in 1..Len(of) |-> of[i].created_at]

\* The date_start the running bulk_get_pages was called with: the lower
\* bound of its first request.
PagesDateStart == PageRequests[1].from

\* ------------------------------------------------------------------ claims
\* C1: completeness of the pagination loops.  With a server that answers
\* from an unchanging collection (first at most LIMIT records of the range,
\* ascending) in which fewer than LIMIT records share a timestamp, the
\* frame of a loop that ended normally holds every record of the collection
\* that lies in [date_start, date_end): every Page object when the loop of
\* bulk_get_pages ends, every Lead object of the Page ID when its loop in
\* bulk_get_leads ends.
C1_Completeness ==
    /\ (pc = "pages_tail" /\ srv.pagesMode = "collection" /\ FewTies(PageStamps))
        => \A i \in 1..Len(srv.pages) :
              InRange(srv.pages[i].createdAt, PagesDateStart, pg.date_end)
                  => srv.pages[i] \in Records(pg.pages_df)
    /\ (pc = "leads_for" /\ ld.next > 0 /\ srv.leadsMode = "collection"
        /\ FewTies(LeadStamps(ld.page_id)))
        => \A i \in 1..Len(srv.leads) :
              (srv.leads[i].page_id = ld.page_id
               /\ InRange(srv.leads[i].created_at, ld.OG_DATE_START, ld.date_end))
                  => srv.leads[i] \in Records(ld.leads_df)

\* A loop over a collection of more than LIMIT Page objects without ties has
\* ended with all of them.
C1_Witness ==
    /\ pc = "pages_tail" /\ srv.pagesMode = "collection" /\ FewTies(PageStamps)
    /\ Len(srv.pages) > LIMIT
    /\ Len(PageRequests) >= 3
    /\ Len(pg.pages_df.rows) = Len(srv.pages)

\* C2: uniqueness.  After every de-duplication step no two rows of pages_df
\* share an id and no two rows of leads_df share (created_at, id, page_id,
\* variant_id); the same holds of the list returned (the id then named
\* page_id or lead_id).
C2_Uniqueness ==
    /\ UniqueKeys(pg.pages_df.rows, PageKey)
    /\ UniqueKeys(ld.leads_df.rows, LeadKey)
    /\ (pc = "done" /\ outcome = "returned" /\ pg.caller = "user")
        => \A i, j \in 1..Len(result) : result[i].page_id = result[j].page_id => i = j
    /\ (pc = "done" /\ outcome = "returned" /\ pg.caller # "user")
        => \A i, j \in 1..Len(result) :
              (/\ result[i].created_at = result[j].created_at
               /\ result[i].lead_id = result[j].lead_id
               /\ result[i].page_id = result[j].page_id
               /\ result[i].variant_id = result[j].variant_id) => i = j

\* Two consecutive requests returned the same record at the cursor boundary
\* (last of one answer, first of the next) and the list was returned with
\* that record in it.
C2_Witness ==
    /\ pc = "done" /\ outcome = "returned" /\ pg.caller = "user"
    /\ \E k \in 1..(Len(PageRequests) - 1) :
          LET a == PageRequests[k].resp
              b == PageRequests[k + 1].resp
          IN  /\ a # <<>> /\ b # <<>>
              /\ a[Len(a)] = b[1]
              /\ \E i \in 1..Len(result) : result[i] = RenamePage(b[1])

\* C3 as stated: a first get_pages answer of fewer than LIMIT Page objects
\* is the only request of the loop, which has then ended.
C3_OneRequestIfShort ==
    (Len(PageRequests) >= 1 /\ PageRequests[1].ok /\ Len(PageRequests[1].resp) < LIMIT)
        => (Len(PageRequests) = 1 /\ pc # "pages_while")

\* The ids of the Page objects returned by the requests before the k-th.
IdsBefore(k) ==
    UNION {{PageRequests[j].resp[i].id : i \in 1..Len(PageRequests[j].resp)} : j \in 1..(k - 1)}

\* C3 amended: a first answer of fewer than LIMIT Page objects is the only
\* request if and only if it is empty.  After a non-empty first answer the
\* loop goes on to another pass, in which only the deadline guard can keep
\* it from a second request, and it ends normally only after a request
\* whose answer is empty or has no Page object with a new id.
C3_ShortFirstPage ==
    (Len(PageRequests) >= 1 /\ PageRequests[1].ok /\ Len(PageRequests[1].resp) < LIMIT)
        => IF PageRequests[1].resp = <<>>
           THEN Len(PageRequests) = 1 /\ pc # "pages_while"
           ELSE /\ Len(PageRequests) = 1
                      => (pc = "pages_while" \/ (pc = "done" /\ outcome = "RecursionError"))
                /\ pc = "pages_tail" =>
                      LET n == Len(PageRequests)
                          last == PageRequests[n].resp
                      IN  /\ n >= 2
                          /\ \A i \in 1..Len(last) : last[i].id \in IdsBefore(n)

\* The loop ended after a non-empty first answer of fewer than LIMIT Page
\* objects and a second request.
C3_Witness ==
    /\ pc = "pages_tail"
    /\ Len(PageRequests) = 2
    /\ PageRequests[1].resp # <<>>
    /\ Len(PageRequests[1].resp) < LIMIT

\* Every request so far was answered with the same page of one Page object.
SameSinglePage ==
    /\ Len(PageRequests) >= 1
    /\ \A k \in 1..Len(PageRequests) :
          /\ PageRequests[k].ok
          /\ Len(PageRequests[k].resp) = 1
          /\ PageRequests[k].resp = PageRequests[1].resp

\* C4: zero-progress termination.  If get_pages answers every request with
\* the same page of one Page object, the loop makes at most 2 requests, has
\* stopped after the second, and ends with exactly 1 row in pages_df.
C4_ZeroProgress ==
    SameSinglePage
        => /\ Len(PageRequests) <= 2
           /\ Len(PageRequests) = 2 => pc # "pages_while"
           /\ pc = "pages_tail" => Len(pg.pages_df.rows) = 1

\* The loop ended after two requests answered with the same one-record page.
C4_Witness ==
    /\ SameSinglePage
    /\ Len(PageRequests) = 2
    /\ pc = "pages_tail"
    /\ Len(pg.pages_df.rows) = 1

\* The server holds LIMIT+1 Page objects with ascending distinct createdAt,
\* all of them in the range bulk_get_pages was called with.
BoundaryScenario ==
    /\ srv.pagesMode = "collection"
    /\ Len(srv.pages) = LIMIT + 1
    /\ \A i \in 1..LIMIT : srv.pages[i].createdAt < srv.pages[i + 1].createdAt
    /\ Len(PageRequests) >= 1
    /\ \A i \in 1..(LIMIT + 1) :
          InRange(srv.pages[i].createdAt, PagesDateStart, pg.date_end)

\* C5: in the boundary scenario the loop of bulk_get_pages never makes more
\* than three requests and ends normally after exactly three: the first
\* answered with the first LIMIT Page objects, the second with the last of
\* these and the one further Page object, the third with that one alone;
\* pages_df, and the list returned when no filter is applied, then hold
\* LIMIT+1 Page objects with pairwise distinct ids.
C5_Boundary ==
    BoundaryScenario
        => /\ Len(PageRequests) <= 3
           /\ pc = "pages_tail" =>
                 /\ Len(PageRequests) = 3
                 /\ PageRequests[1].resp = SubSeq(srv.pages, 1, LIMIT)
                 /\ PageRequests[2].resp = SubSeq(srv.pages, LIMIT, LIMIT + 1)
                 /\ PageRequests[3].resp = SubSeq(srv.pages, LIMIT + 1, LIMIT + 1)
                 /\ Len(pg.pages_df.rows) = LIMIT + 1
                 /\ UniqueKeys(pg.pages_df.rows, PageKey)
           /\ (/\ pc = "done" /\ outcome = "returned" /\ pg.caller = "user"
               /\ PagesFilterColumns(pg.domain_list, pg.page_id_list, pg.state) = {})
                 => /\ Len(result) = LIMIT + 1
                    /\ \A i, j \in 1..Len(result) :
                          result[i].page_id = result[j].page_id => i = j

\* bulk_get_pages returned the LIMIT+1 Page objects of a boundary scenario.
C5_Witness ==
    /\ BoundaryScenario
    /\ pc = "done" /\ outcome = "returned" /\ pg.caller = "user"
    /\ Len(PageRequests) = 3
    /\ Len(result) = LIMIT + 1

\* C6: an empty first page.  If the first request of bulk_get_pages is
\* answered with an empty page, that request is the only one and the
\* method returns an empty list, whatever filters were passed; no error is
\* raised.
C6_EmptyFirstPage ==
    (/\ pg.caller = "user"
     /\ Len(PageRequests) >= 1 /\ PageRequests[1].ok /\ PageRequests[1].resp = <<>>)
        => /\ Len(PageRequests) = 1
           /\ pc = "done" => (outcome = "returned" /\ result = <<>>)

\* C7: no parent Page IDs.  If bulk_get_leads was called without a Page ID
\* list and its Page lookup finds no Page object, no request for Lead
\* objects is made and the method returns an empty list without error.
C7_NoParentIds ==
    (/\ pg.caller = "leads"
     /\ Len(PageRequests) >= 1 /\ PageRequests[1].ok /\ PageRequests[1].resp = <<>>)
        => /\ Len(LeadRequests) = 0
           /\ pc = "done" => (outcome = "returned" /\ result = <<>>)

\* The Page IDs for which Lead objects were requested.
RequestedParents == {LeadRequests[k].page_id : k \in 1..Len(LeadRequests)}

\* C8: Page IDs supplied by the caller.  When bulk_get_leads was called
\* with a non-empty Page ID list and neither the deadline nor the client
\* stopped it, it has made no get_pages request, has requested Lead objects
\* for exactly the supplied Page IDs and has returned normally.
C8_SuppliedParents ==
    (/\ Truthy(ld.page_id_list)
     /\ pc = "done" /\ outcome \notin {"RecursionError", "UpstreamError"})
        => /\ outcome = "returned"
           /\ Len(PageRequests) = 0
           /\ RequestedParents = Range(ld.page_id_list.list)

\* The k-th request for Lead objects is the first for its Page ID.
FirstForParent(k) ==
    \A j \in 1..(k - 1) : LeadRequests[j].page_id # LeadRequests[k].page_id

\* C9: the cursor is per parent.  The first request for Lead objects of
\* every Page ID has the date_start bulk_get_leads was called with as its
\* lower bound, whatever the cursor of an earlier Page ID had reached.
C9_PerParentCursor ==
    \A k \in 1..Len(LeadRequests) :
        FirstForParent(k) => LeadRequests[k].from = ld.OG_DATE_START

\* The loop of an earlier Page ID advanced its cursor, and the first
\* request of a later Page ID was made.
C9_Witness ==
    \E j, k \in 1..Len(LeadRequests) :
        /\ j < k
        /\ LeadRequests[j].page_id # LeadRequests[k].page_id
        /\ LeadRequests[j].from # ld.OG_DATE_START
        /\ FirstForParent(k)
        /\ LeadRequests[k].from = ld.OG_DATE_START

\* C10: the deadline guard.  No single-page request is issued at a moment
\* at which more than the configured timeout has elapsed since the bulk
\* extraction started.
C10_NoLateRequest == ~late

\* The outcomes in which a bulk extraction is aborted: the deadline error
\* and the failure of a single-page request.
Aborts == {"RecursionError", "UpstreamError"}

\* C11: all-or-nothing outcome.  A pass of a loop that finds the deadline
\* exceeded ends the bulk extraction in RecursionError without a request,
\* a failed single-page request is the last request and ends it in the
\* error of the client; an aborted extraction has ended, has returned no
\* record and takes no further step (no retry, no request for the Page IDs
\* that remain).
C11_AllOrNothing ==
    [][/\ outcome' \in Aborts => (pc' = "done" /\ result' = <<>>)
       /\ outcome \in Aborts => (log' = log /\ outcome' = outcome)
       /\ \A i \in 1..Len(log') :
             ~log'[i].ok => (i = Len(log') /\ outcome' = "UpstreamError")
       /\ ((pc = "pages_while" /\ DeadlineExceeded(pg.START_TIME))
           \/ (pc = "leads_while" /\ DeadlineExceeded(ld.START_TIME)))
             => (outcome' = "RecursionError" /\ log' = log)]_vars

\* bulk_get_leads was aborted with Lead objects accumulated and a Page ID
\* still to be processed; nothing was returned.
C11_Witness ==
    /\ pc = "done" /\ outcome \in Aborts
    /\ ld.leads_df.rows # <<>>
    /\ ld.next < Len(ld.page_ids_all.vals)
    /\ result = <<>>

\* The position of the last pause in the log, 0 if there was none.
LastSleep ==
    LET at == {i \in 1..Len(log) : log[i].ep = "sleep"}
    IN  IF at = {} THEN 0 ELSE CHOOSE i \in at : \A j \in at : j <= i

\* The number of answered, non-empty requests to an endpoint since the last
\* pause.
CountedSincePause(ep) ==
    Cardinality({i \in (LastSleep + 1)..Len(log) :
                    log[i].ep = ep /\ log[i].ok /\ log[i].resp # <<>>})

\* bulk_get_leads is in or past its for loop.
LeadsPhase == pc \in {"leads_for", "leads_while", "leads_tail"}

\* C12: global budget across parents.  Within one bulk_get_leads the
\* deadline reference START_TIME never changes after the call, the head of
\* the for loop leaves the counter itr as the previous Page ID left it, and
\* itr is at all times the number of non-empty answers to requests for
\* Lead objects, of whatever Page ID, since the last pause.
C12_GlobalBudget ==
    [][/\ pg.caller = "leads" => ld'.START_TIME = ld.START_TIME
       /\ pc = "leads_for" => ld'.itr = ld.itr
       /\ LeadsPhase' => ld'.itr = CountedSincePause("leads")']_vars

\* The first request for a later Page ID brought the counter, left above 0
\* by the requests of an earlier Page ID, to the threshold: it was followed
\* by the pause.
C12_Witness ==
    \E i \in 2..(Len(log) - 1) :
        /\ log[i].ep = "leads" /\ log[i + 1].ep = "sleep"
        /\ \A j \in 1..(i - 1) : log[j].ep = "leads" => log[j].page_id # log[i].page_id
        /\ \E j \in 1..(i - 1) : log[j].ep = "leads" /\ log[j].resp # <<>>
        /\ ld.itr = 0

\* The loop an entry of the log belongs to: a pause belongs to the loop of
\* the request whose pass ended in it.
Owner(i) == IF log[i].ep = "sleep" THEN log[i - 1].ep ELSE log[i].ep

\* The position of the last pause of a loop before position i, 0 if none.
PrevSleep(ep, i) ==
    LET at == {j \in 2..(i - 1) : log[j].ep = "sleep" /\ log[j - 1].ep = ep}
    IN  IF at = {} THEN 0 ELSE CHOOSE j \in at : \A k \in at : k <= j

\* The number of non-empty answers a loop has received since its last
\* pause, as position i of the log is reached: the value its counter
\* should have there.
CounterAt(ep, i) ==
    Cardinality({j \in (PrevSleep(ep, i) + 1)..(i - 1) :
                    log[j].ep = ep /\ log[j].ok /\ log[j].resp # <<>>})

\* C13: the rate governor.  In each loop the counter itr is the number of
\* non-empty answers since the loop's last pause; it is between 0 and
\* PAUSE_AT-1 whenever a request is issued; the answer that brings it to
\* PAUSE_AT is followed at once by the pause, before any further request,
\* and every pause comes after exactly PAUSE_AT such answers.
C13_RateGovernor ==
    /\ \A i \in 1..Len(log) :
          IF log[i].ep = "sleep"
          THEN CounterAt(Owner(i), i) = PAUSE_AT
          ELSE /\ CounterAt(log[i].ep, i) \in 0..(PAUSE_AT - 1)
               /\ (/\ CounterAt(log[i].ep, i) = PAUSE_AT - 1
                   /\ log[i].ok /\ log[i].resp # <<>>)
                     => (i < Len(log) /\ log[i + 1].ep = "sleep")
    /\ pg.itr = CounterAt("pages", Len(log) + 1)
    /\ ld.itr = CounterAt("leads", Len(log) + 1)

\* After PAUSE_AT non-empty answers and the pause a further request was
\* issued, with the counter at 0, and counted.
C13_Witness ==
    \E i \in 2..(Len(log) - 1) :
        /\ log[i].ep = "sleep"
        /\ log[i + 1].ep = "pages" /\ log[i + 1].resp # <<>>
        /\ CounterAt("pages", i + 1) = 0
        /\ pg.itr = 1

\* The number of non-empty answers, to requests of either endpoint, since
\* the last pause before position i of the log.
CountedOverall(i) ==
    LET at == {j \in 1..(i - 1) : log[j].ep = "sleep"}
        last == IF at = {} THEN 0 ELSE CHOOSE j \in at : \A k \in at : k <= j
    IN  Cardinality({j \in (last + 1)..(i - 1) : log[j].ok /\ log[j].resp # <<>>})

\* C14: one counter per bulk operation.  In a bulk_get_leads without Page
\* ID list the requests of the Page lookup and the requests for Lead
\* objects count toward one counter: no request of either endpoint is
\* issued when PAUSE_AT non-empty answers have been received since the last
\* pause.
C14_OneCounter ==
    pg.caller = "leads"
        => \A i \in 1..Len(log) :
              log[i].ep # "sleep" => CountedOverall(i) < PAUSE_AT

\* The value of a date-range key is a string of the form '%Y-%m-%d'.
WellFormed(v) == v.type = "str" /\ v.val.matches

\* The created_at value of a call fails validation: it is no mapping, has
\* an unrecognised key, a malformed date, or both dates with date_end not
\* later than date_start.
InvalidDateRange(r) ==
    \/ r.type # "dict"
    \/ /\ r.type = "dict"
       /\ \/ \E k \in DOMAIN r.val : k \notin {"date_start", "date_end"}
          \/ \E k \in DOMAIN r.val : ~WellFormed(r.val[k])
          \/ /\ DOMAIN r.val = {"date_start", "date_end"}
             /\ WellFormed(r.val["date_start"]) /\ WellFormed(r.val["date_end"])
             /\ r.val["date_end"].val.day <= r.val["date_start"].val.day

\* The call of bulk_extract fails validation.
InvalidCall ==
    LET f == call.filters
        accepted == IF call.extract_obj = "pages"
                    THEN {"created_at", "domain", "page_id", "state"}
                    ELSE {"created_at", "lead_id", "page_id"}
    IN  \/ call.extract_obj \notin {"pages", "leads"}
        \/ f.type # "dict"
        \/ /\ f.type = "dict"
           /\ \/ \E k \in DOMAIN f.val : k \notin accepted
              \/ \E k \in DOMAIN f.val \cap {"domain", "page_id", "lead_id"} :
                    f.val[k].type \notin {"str", "list"}
              \/ /\ "state" \in DOMAIN f.val
                 /\ f.val["state"] \notin {PyStr("published"), PyStr("unpublished")}
              \/ /\ "created_at" \in DOMAIN f.val
                 /\ InvalidDateRange(f.val["created_at"])

\* C15: validation precedes network activity.  A bulk_extract call that
\* fails validation (object type, filters no mapping, unrecognised filter
\* key, id or domain filter neither string nor list, unrecognised state,
\* malformed date, unrecognised date-range key, date range of zero length
\* or inverted) has ended in ValueError or TypeError and no request has
\* been issued since it was made.
C15_ValidationFirst ==
    (call.n > 0 /\ InvalidCall)
        => /\ pc = "done"
           /\ outcome \in {"ValueError", "TypeError"}
           /\ Len(log) = call.mark

\* A call for Page objects whose created_at, domain and page_id filters
\* are valid and whose state is not: the last of the checks failed, no
\* request was issued.
C15_Witness ==
    /\ call.n > 0 /\ InvalidCall
    /\ call.extract_obj = "pages"
    /\ DOMAIN call.filters.val = {"created_at", "domain", "page_id", "state"}
    /\ ~InvalidDateRange(call.filters.val["created_at"])
    /\ call.filters.val["domain"].type = "str"
    /\ call.filters.val["page_id"].type = "list"
    /\ outcome = "ValueError"
    /\ log = <<>>

\* The call of bulk_extract passes a mapping as the created_at filter.
HasDateRange ==
    /\ call.n > 0 /\ call.filters.type = "dict"
    /\ "created_at" \in DOMAIN call.filters.val
    /\ call.filters.val["created_at"].type = "dict"

\* The date range of the call has exactly the given bounds, all well-formed.
BoundsGiven(keys) ==
    /\ DOMAIN call.filters.val["created_at"].val = keys
    /\ \A k \in keys : WellFormed(call.filters.val["created_at"].val[k])

\* C16: date-range validation.  With both bounds present and well-formed
\* process_date_range accepts the range if and only if date_start is a
\* strictly earlier day than date_end, and otherwise raises ValueError,
\* which ends a bulk_extract call with recognised filter keys; with one
\* bound present and well-formed it raises nothing and returns the other
\* bound as None.  The bounds it returns are those of the requests of the
\* bulk getter.
C16_DateRange ==
    HasDateRange =>
        LET r == call.filters.val["created_at"].val
            out == process_date_range(call.filters.val["created_at"])
        IN  /\ BoundsGiven({"date_start", "date_end"}) =>
                  /\ out.error = "none" <=> r["date_start"].val.day < r["date_end"].val.day
                  /\ out.error \in {"none", "ValueError"}
                  /\ out.error = "none" =>
                        /\ out.date_start = Midnight(r["date_start"])
                        /\ out.date_end = Midnight(r["date_end"])
                  /\ (/\ out.error # "none"
                      /\ call.extract_obj = "pages"
                      /\ DOMAIN call.filters.val \subseteq {"created_at", "domain", "page_id", "state"})
                        => (pc = "done" /\ outcome = "ValueError" /\ Len(log) = call.mark)
            /\ BoundsGiven({"date_start"}) =>
                  /\ out.error = "none"
                  /\ out.date_start = Midnight(r["date_start"])
                  /\ out.date_end = None
            /\ BoundsGiven({"date_end"}) =>
                  /\ out.error = "none"
                  /\ out.date_start = None
                  /\ out.date_end = Midnight(r["date_end"])
            /\ (~InvalidCall /\ call.extract_obj = "pages" /\ Len(PageRequests) >= 1) =>
                  /\ PageRequests[1].from = out.date_start
                  /\ PageRequests[1].to = out.date_end
            /\ (~InvalidCall /\ call.extract_obj = "leads") =>
                  /\ ld.OG_DATE_START = out.date_start
                  /\ ld.date_end = out.date_end

\* A call whose only filter is a date range with the same day as
\* date_start and date_end has ended in ValueError.
C16_Witness ==
    /\ HasDateRange
    /\ call.extract_obj = "pages"
    /\ DOMAIN call.filters.val = {"created_at"}
    /\ BoundsGiven({"date_start", "date_end"})
    /\ call.filters.val["created_at"].val["date_start"]
          = call.filters.val["created_at"].val["date_end"]
    /\ pc = "done" /\ outcome = "ValueError"

\* The records of the merged, de-duplicated leads_df under their output
\* names, in the order of the frame.
LeadsAccumulated == ToDict(LeadsRenamed(ld.leads_df))

\* bulk_get_leads has ended after its for loop went through every Page ID
\* of the lookup.
AllParentsFetched ==
    /\ pc = "done" /\ outcome \notin Aborts
    /\ ld.page_ids_all.kind = "Series"
    /\ ld.next = Len(ld.page_ids_all.vals)

\* C17: the Lead ID post-filter.  When bulk_get_leads was called with a
\* non-empty Lead ID list and has fetched every Page ID, it has returned
\* exactly the records of the merged, de-duplicated accumulator whose
\* lead_id is in the list, in the order of the accumulator; every request
\* was issued while the accumulator was still unfiltered.
C17_LeadIdFilter ==
    (Truthy(ld.lead_id_list) /\ AllParentsFetched)
        => /\ outcome = "returned"
           /\ result = SelectSeq(LeadsAccumulated,
                                 LAMBDA r : r.lead_id \in Range(ld.lead_id_list.list))

\* The records of the de-duplicated pages_df under their output names, in
\* the order of the frame.
PagesAccumulated == ToDict(PagesRenamed(pg.pages_df))

\* C18: the Page column filters.  When the loop of a bulk_get_pages called
\* by a user has ended normally, the method has returned exactly the
\* records of the de-duplicated pages_df that satisfy every filter
\* supplied (domain in domain_list, page_id in page_id_list, state equal
\* to state), in the order of the frame; a filter not supplied restricts
\* nothing.
C18_PageFilters ==
    (pg.caller = "user" /\ pc = "done" /\ outcome \notin Aborts
     /\ outcome \notin {"ValueError", "TypeError"})
        => /\ outcome = "returned"
           /\ result = SelectSeq(PagesAccumulated,
                 LAMBDA r : /\ Truthy(pg.domain_list) => r.domain \in Range(pg.domain_list.list)
                            /\ Truthy(pg.page_id_list) => r.page_id \in Range(pg.page_id_list.list)
                            /\ pg.state # NoState => r.state = pg.state)

\* The positions of the log written since the running call was made.
SinceCall == (call.mark + 1)..Len(log)

\* The number of non-empty answers a loop of the running call has received
\* since its last pause.
CountedSinceCall(ep) ==
    LET at == {j \in SinceCall : log[j].ep = "sleep" /\ log[j - 1].ep = ep}
        last == IF at = {} THEN call.mark ELSE CHOOSE j \in at : \A k \in at : k <= j
    IN  Cardinality({j \in (last + 1)..Len(log) :
                        log[j].ep = ep /\ log[j].ok /\ log[j].resp # <<>>})

\* The records the requests of the running call to an endpoint were
\* answered with.
AnsweredSinceCall(ep) ==
    UNION {Range(log[j].resp) : j \in {k \in SinceCall : log[k].ep = ep}}

\* The first request of the running call to an endpoint, 0 if none.
FirstSinceCall(ep) ==
    LET at == {j \in SinceCall : log[j].ep = ep}
    IN  IF at = {} THEN 0 ELSE CHOOSE j \in at : \A k \in at : j <= k

\* C19: per-invocation scoping.  Whatever earlier calls on the connection
\* left behind, during a bulk_extract call the start times are the time of
\* the call, the counters count the non-empty answers of this call since
\* its last pause, the frames hold the records this call was answered
\* with and no others (they are empty frames before its first answer), its
\* first request has the bounds of its own arguments, only the time since
\* this call can raise the deadline error, and the list returned is made
\* of records this call was answered with.
C19_FreshInvocation ==
    (call.n > 0 /\ ~InvalidCall) =>
        LET args == IF call.extract_obj = "pages" THEN process_bulk_pages(call.filters)
                    ELSE process_bulk_leads(call.filters)
            first == FirstSinceCall("pages")
        IN  /\ pg.START_TIME = call.at
            /\ pg.itr = CountedSinceCall("pages")
            /\ Records(pg.pages_df) = AnsweredSinceCall("pages")
            /\ first = 0 => pg.pages_df = EmptyFrame
            /\ first # 0 =>
                  /\ log[first].from = (IF call.extract_obj = "pages" THEN args.date_start
                                        ELSE None)
                  /\ log[first].to = args.date_end
            /\ outcome = "RecursionError" => Seconds(now - call.at) > extract_timeout_time
            /\ (call.extract_obj = "pages" /\ pc = "done" /\ outcome = "returned")
                  => Range(result) = {RenamePage(r) : r \in AnsweredSinceCall("pages")}
            /\ call.extract_obj = "leads" =>
                  /\ ld.START_TIME = call.at
                  /\ ld.itr = CountedSinceCall("leads")
                  /\ Records(ld.leads_df) = AnsweredSinceCall("leads")
                  /\ FirstSinceCall("leads") = 0 => ld.leads_df = EmptyFrame
                  /\ (pc = "done" /\ outcome = "returned")
                        => Range(result) = {RenameLead(r) : r \in AnsweredSinceCall("leads")}

\* A first call took three non-empty answers and the pause; the second
\* call, made later on the same connection, has returned its records.
C19_Witness ==
    /\ call.n = 2 /\ call.at > 0
    /\ \E j \in 1..call.mark : log[j].ep = "sleep"
    /\ \E j \in 1..call.mark : log[j].ep = "pages" /\ log[j].from # None
    /\ pc = "done" /\ outcome = "returned"
    /\ result # <<>>
    /\ pg.itr = 2

\* The records the requests to an endpoint were answered with.
Answered(ep) == UNION {Range(RequestsTo(ep)[k].resp) : k \in 1..Len(RequestsTo(ep))}

\* C20: output key renaming.  Every record returned by bulk_get_pages has
\* the field page_id, holding the id of a Page object the server answered
\* with, and no field id; every record returned by bulk_get_leads has the
\* field lead_id, holding the id of a Lead object the server answered
\* with, no field id, and the field page_id with the value it has in that
\* Lead object; the other fields are those of the object.
C20_KeyRenaming ==
    (pc = "done" /\ outcome = "returned") =>
        \A i \in 1..Len(result) :
            IF pg.caller = "user"
            THEN /\ "page_id" \in DOMAIN result[i] /\ "id" \notin DOMAIN result[i]
                 /\ \E r \in Answered("pages") :
                       /\ result[i].page_id = r.id
                       /\ result[i].createdAt = r.createdAt
                       /\ result[i].domain = r.domain
                       /\ result[i].state = r.state
            ELSE /\ {"lead_id", "page_id"} \subseteq DOMAIN result[i]
                 /\ "id" \notin DOMAIN result[i]
                 /\ \E r \in Answered("leads") :
                       /\ result[i].lead_id = r.id
                       /\ result[i].page_id = r.page_id
                       /\ result[i].created_at = r.created_at
                       /\ result[i].variant_id = r.variant_id

\* bulk_get_leads returned a Lead object whose id differs from the id of
\* its Page object.
C20_Witness ==
    /\ pc = "done" /\ outcome = "returned" /\ pg.caller = "leads"
    /\ \E i \in 1..Len(result) : result[i].lead_id # result[i].page_id

\* The number of requests, of either endpoint and with whatever answer,
\* issued after the last pause before position i of the log, up to and
\* including position i.
IssuedSincePause(i) ==
    LET at == {j \in 1..i : log[j].ep = "sleep"}
        last == IF at = {} THEN 0 ELSE CHOOSE j \in at : \A k \in at : k <= j
    IN  i - last

\* C21: the rate limit on the requests actually issued.  Counting every
\* single-page request, those answered with an empty page included, never
\* more than PAUSE_AT requests are issued from the start of a bulk
\* extraction to its first pause or between two consecutive pauses.
C21_IssuedRequests ==
    \A i \in 1..Len(log) : log[i].ep # "sleep" => IssuedSincePause(i) <= PAUSE_AT

\* The unique keys of the Lead objects returned by the requests before the
\* k-th.
LeadKeysBefore(k) ==
    UNION {{KeyOf(LeadRequests[j].resp[i], LeadKey) : i \in 1..Len(LeadRequests[j].resp)} :
              j \in 1..(k - 1)}

\* The k-th request for Page objects, the k-th for Lead objects, was
\* answered with a record whose unique key no earlier answer had.
PagesNetNew(k) ==
    \E i \in 1..Len(PageRequests[k].resp) : PageRequests[k].resp[i].id \notin IdsBefore(k)
LeadsNetNew(k) ==
    \E i \in 1..Len(LeadRequests[k].resp) :
        KeyOf(LeadRequests[k].resp[i], LeadKey) \notin LeadKeysBefore(k)

\* The requests for the Lead objects of a Page ID, as positions of
\* LeadRequests.
LoopOf(page_id) == {k \in 1..Len(LeadRequests) : LeadRequests[k].page_id = page_id}

\* C22: bounded termination.  Every request after which a loop went on to
\* another pass was answered with at least one record of a unique key not
\* returned before; so the loop of bulk_get_pages has made at most one
\* request more than there are distinct ids in its answers, and the loop
\* of each Page ID in bulk_get_leads at most one more than there are
\* distinct keys in that loop's answers, whatever the order, the overlap
\* and the timestamps of the pages.
C22_BoundedTermination ==
    /\ \A k \in 1..Len(PageRequests) :
          (k < Len(PageRequests) \/ pc = "pages_while") => PagesNetNew(k)
    /\ Len(PageRequests) <= Cardinality({r.id : r \in Answered("pages")}) + 1
    /\ \A k \in 1..Len(LeadRequests) :
          ((k < Len(LeadRequests) /\ LeadRequests[k + 1].page_id = LeadRequests[k].page_id)
           \/ (k = Len(LeadRequests) /\ pc = "leads_while"
               /\ LeadRequests[k].page_id = ld.page_id))
              => LeadsNetNew(k)
    /\ \A k \in 1..Len(LeadRequests) :
          Cardinality(LoopOf(LeadRequests[k].page_id))
              <= Cardinality({KeyOf(r, LeadKey) :
                                 r \in UNION {Range(LeadRequests[j].resp) :
                                                 j \in LoopOf(LeadRequests[k].page_id)}}) + 1

\* A fetch function that answers with pages in no order, out of Page
\* objects of two ids: the loop ended after three requests.
C22_Witness ==
    /\ srv.pagesMode = "any" /\ pc = "pages_tail"
    /\ Len(PageRequests) = 3
    /\ Cardinality({r.id : r \in Answered("pages")}) = 2
    /\ PageRequests[3].resp # <<>>

\* LIMIT or more of the Page objects of the collection share one createdAt.
TiedPages == ~FewTies(PageStamps)

\* C23: no silent truncation under timestamp ties.  With a server that
\* answers from an unchanging collection (first at most LIMIT records of
\* the range, ascending, lower bound inclusive) in which LIMIT or more
\* Page objects share a createdAt, a loop of bulk_get_pages that ended
\* normally holds every Page object of the collection that lies in
\* [date_start, date_end).
C23_NoTruncation ==
    (pc = "pages_tail" /\ srv.pagesMode = "collection" /\ TiedPages)
        => \A i \in 1..Len(srv.pages) :
              InRange(srv.pages[i].createdAt, PagesDateStart, pg.date_end)
                  => \E j \in 1..Len(pg.pages_df.rows) :
                        pg.pages_df.rows[j].rec.id = srv.pages[i].id

\* Request k + 1 of the endpoint belongs to the same loop as request k.
SameLoop(reqs, k) == k < Len(reqs) /\ reqs[k + 1].page_id = reqs[k].page_id

\* C24: cursor advance.  After every request that returned a non-empty
\* page, the lower bound of the next request of the same loop is the
\* creation timestamp of the last record of that page as it was returned;
\* the upper bound of every request is the date_end of the operation; and
\* with a server that answers from a collection in ascending order the
\* lower bound of a loop never decreases.
C24_CursorAdvance ==
    /\ \A k \in 1..Len(PageRequests) :
          /\ PageRequests[k].to = pg.date_end
          /\ (SameLoop(PageRequests, k) /\ PageRequests[k].resp # <<>>)
                => /\ PageRequests[k + 1].from
                        = PageRequests[k].resp[Len(PageRequests[k].resp)].createdAt
                   /\ srv.pagesMode = "collection"
                        => PageRequests[k + 1].from >= PageRequests[k].from
    /\ \A k \in 1..Len(LeadRequests) :
          /\ LeadRequests[k].to = ld.date_end
          /\ (SameLoop(LeadRequests, k) /\ LeadRequests[k].resp # <<>>)
                => /\ LeadRequests[k + 1].from
                        = LeadRequests[k].resp[Len(LeadRequests[k].resp)].created_at
                   /\ srv.leadsMode = "collection"
                        => LeadRequests[k + 1].from >= LeadRequests[k].from

\* A second request of a parent's loop starts at the timestamp of the last
\* of two leads with different timestamps.
C24_Witness ==
    \E k \in 1..Len(LeadRequests) :
        /\ SameLoop(LeadRequests, k)
        /\ Len(LeadRequests[k].resp) = 2
        /\ LeadRequests[k].resp[1].created_at < LeadRequests[k].resp[2].created_at
        /\ LeadRequests[k + 1].from = LeadRequests[k].resp[2].created_at
        /\ LeadRequests[k + 1].to # None

\* C25: deadline arithmetic.  At the head of a pass of either loop the
\* guard raises the deadline error if and only if the time elapsed since
\* the start of the operation exceeds the configured timeout, for elapsed
\* times and timeouts of one day or more as well.
C25_DeadlineArithmetic ==
    /\ pc = "pages_while"
          => (DeadlineExceeded(pg.START_TIME)
                <=> now - pg.START_TIME > extract_timeout_time)
    /\ pc = "leads_while"
          => (DeadlineExceeded(ld.START_TIME)
                <=> now - ld.START_TIME > extract_timeout_time)

\* bulk_get_leads resolves the Page IDs itself.
LookupPhase == pg.caller = "leads" /\ pc # "idle"

\* C26: scope of the lookup of the Page IDs.  When bulk_get_leads resolves
\* the Page IDs itself, every request for Page objects carries the
\* date_end of the caller, the first of them has no lower bound whatever
\* date_start the caller gave, no domain, Page ID or state filter is set,
\* and the Page IDs iterated are those of all Page objects accumulated, in
\* order: Page objects created before date_start are parents as well.
C26_LookupScope ==
    LookupPhase =>
        /\ \A k \in 1..Len(PageRequests) : PageRequests[k].to = ld.date_end
        /\ PageRequests # <<>> => PageRequests[1].from = None
        /\ ~Truthy(pg.domain_list) /\ ~Truthy(pg.page_id_list) /\ pg.state = NoState
        /\ pc \in {"leads_for", "leads_while", "leads_tail"}
              => ld.page_ids_all.vals
                    = [i \in 1..Len(pg.pages_df.rows) |-> pg.pages_df.rows[i].rec.id]

\* With a date_start given, Lead objects are requested for a Page object
\* created before it.
C26_Witness ==
    /\ LookupPhase /\ srv.pagesMode = "collection"
    /\ ld.OG_DATE_START # None /\ ld.date_end # None
    /\ \E k \in 1..Len(LeadRequests), i \in 1..Len(srv.pages) :
          /\ srv.pages[i].id = LeadRequests[k].page_id
          /\ srv.pages[i].createdAt < ld.OG_DATE_START

\* The position of a Page ID in the resolved sequence (0 if it is not in it).
PositionOf(page_id) ==
    LET at == {m \in 1..Len(ld.page_ids_all.vals) : ld.page_ids_all.vals[m] = page_id}
    IN  IF at = {} THEN 0 ELSE CHOOSE m \in at : \A n \in at : m <= n

\* The for loop of bulk_get_leads runs or has ended.
FanOut == pc \in {"leads_for", "leads_while", "leads_tail"}

\* C27: serial fan-out order.  The requests for Lead objects follow the
\* resolved sequence of Page IDs: each is for one of the Page IDs iterated
\* so far, the requests of an earlier Page ID all come before those of a
\* later one, the Page ID being fetched is the one at the position of the
\* for loop, no Page ID occurs twice in the sequence, and when the for loop
\* has ended every Page ID of the sequence has had its requests.
C27_SerialFanOut ==
    FanOut =>
        /\ \A m, n \in 1..Len(ld.page_ids_all.vals) :
              ld.page_ids_all.vals[m] = ld.page_ids_all.vals[n] => m = n
        /\ \A k \in 1..Len(LeadRequests) :
              /\ PositionOf(LeadRequests[k].page_id) \in 1..ld.next
              /\ \A j \in 1..k :
                    PositionOf(LeadRequests[j].page_id) <= PositionOf(LeadRequests[k].page_id)
        /\ pc = "leads_while" => ld.page_id = ld.page_ids_all.vals[ld.next]
        /\ \A m \in 1..ld.next :
              (m < ld.next \/ pc # "leads_while")
                  => \E k \in 1..Len(LeadRequests) :
                        LeadRequests[k].page_id = ld.page_ids_all.vals[m]
        /\ pc = "leads_tail" => ld.next = Len(ld.page_ids_all.vals)

\* The for loop has ended after requests for three Page IDs, two of them
\* for the second.
C27_Witness ==
    /\ pc = "leads_tail" /\ Len(ld.page_ids_all.vals) = 3
    /\ \E k \in 1..Len(LeadRequests) :
          /\ SameLoop(LeadRequests, k)
          /\ LeadRequests[k].page_id = ld.page_ids_all.vals[2]

\* The step is a request for Lead objects answered with an empty page.
EmptyLeadsPage ==
    /\ pc = "leads_while"
    /\ Len(log') = Len(log) + 1
    /\ log'[Len(log')].ep = "leads" /\ log'[Len(log')].ok
    /\ log'[Len(log')].resp = <<>>

\* C28: an empty page ends only the loop of the current Page ID.  A request
\* for Lead objects answered with an empty page raises no error, leaves
\* leads_df and the position of the for loop as they are and returns
\* control to the head of the for loop; the head of the for loop, while
\* Page IDs remain, starts the loop of the next one with leads_df kept.
C28_EmptyPageEndsParent ==
    [][/\ EmptyLeadsPage
          => /\ pc' = "leads_for" /\ outcome' = outcome
             /\ ld'.leads_df = ld.leads_df /\ ld'.next = ld.next
       /\ (pc = "leads_for" /\ ld.next < Len(ld.page_ids_all.vals))
          => /\ pc' = "leads_while"
             /\ ld'.page_id = ld.page_ids_all.vals[ld.next + 1]
             /\ ld'.leads_df = ld.leads_df]_vars

\* After Lead objects of an earlier Page ID were merged, a Page ID was
\* answered with an empty page and the next Page ID was requested; the
\* earlier Lead objects are in leads_df.
C28_Witness ==
    \E k \in 2..Len(LeadRequests) :
        /\ LeadRequests[k].resp = <<>> /\ LeadRequests[k].ok
        /\ k < Len(LeadRequests)
        /\ LeadRequests[k + 1].page_id # LeadRequests[k].page_id
        /\ LeadRequests[1].resp # <<>>
        /\ LeadRequests[1].page_id # LeadRequests[k].page_id
        /\ \A i \in 1..Len(LeadRequests[1].resp) :
              \E j \in 1..Len(ld.leads_df.rows) :
                  ld.leads_df.rows[j].rec = LeadRequests[1].resp[i]

\* The records of all answers to the requests, in the order of arrival.
Arrived(reqs) ==
    LET F[k \in 0..Len(reqs)] == IF k = 0 THEN <<>> ELSE F[k - 1] \o reqs[k].resp
    IN  F[Len(reqs)]

\* The records of s whose unique key no earlier record of s has.
FirstSeen(s, subset) ==
    LET F[i \in 0..Len(s)] ==
            IF i = 0 THEN <<>>
            ELSE IF \E j \in 1..(i - 1) : KeyOf(s[j], subset) = KeyOf(s[i], subset)
                 THEN F[i - 1]
                 ELSE Append(F[i - 1], s[i])
    IN  F[Len(s)]

\* C29: first-seen order.  pages_df and leads_df hold, in this order, the
\* records that were the first to arrive with their unique key, each as it
\* arrived: a record arriving later with a key already held neither
\* replaces the record held nor moves it.
C29_FirstSeenOrder ==
    /\ ToDict(pg.pages_df) = FirstSeen(Arrived(PageRequests), PageKey)
    /\ ToDict(ld.leads_df) = FirstSeen(Arrived(LeadRequests), LeadKey)

\* The loop has ended with two Page objects held, and a Page object with
\* the id of the first one held but other fields arrived after it.
C29_Witness ==
    /\ pc = "pages_tail" /\ Len(pg.pages_df.rows) = 2
    /\ \E i \in 2..Len(Arrived(PageRequests)) :
          /\ Arrived(PageRequests)[i].id = pg.pages_df.rows[1].rec.id
          /\ Arrived(PageRequests)[i] # pg.pages_df.rows[1].rec

\* C30: cooldown only between requests.  In a bulk extraction that has
\* returned, every pause was followed by a single-page request: the
\* operation did not pause after the request on which it stopped.
C30_CooldownBetweenRequests ==
    (pc = "done" /\ outcome = "returned")
        => \A i \in 1..Len(log) :
              log[i].ep = "sleep"
                  => \E j \in (i + 1)..Len(log) : log[j].ep # "sleep"

\* A record passes a list filter as far as the elements of the list go: a
\* list without elements, like no list, lets every record pass.
PassesList(value, x) == x.list # <<>> => value \in Range(x.list)

\* C31: an empty list is no filter.  The result of bulk_get_pages and of
\* bulk_get_leads depends on domain_list, page_id_list and lead_id_list
\* only through their elements, an empty list letting every record pass
\* as if the filter was not given, and an extraction whose lists are all
\* empty or not given does not fail on a filter; bulk_get_leads called
\* with page_id_list = [] looks the Page IDs up itself, does not fail on
\* the list and requests the Lead objects of every Page object found.
C31_EmptyListNoFilter ==
    /\ (pc = "done" /\ pg.caller = "user" /\ outcome = "returned")
          => result = SelectSeq(ToDict(PagesRenamed(pg.pages_df)),
                         LAMBDA r : /\ PassesList(r.domain, pg.domain_list)
                                    /\ PassesList(r.page_id, pg.page_id_list)
                                    /\ pg.state # NoState => r.state = pg.state)
    /\ (pg.caller = "user" /\ pg.domain_list.list = <<>> /\ pg.page_id_list.list = <<>>
            /\ pg.state = NoState)
          => outcome # "KeyError"
    /\ ld.page_id_list = List(<<>>)
          => /\ pg.caller = "leads"
             /\ outcome # "AttributeError"
             /\ pc = "leads_tail"
                   => \A i \in 1..Len(pg.pages_df.rows) :
                         \E k \in 1..Len(LeadRequests) :
                             LeadRequests[k].page_id = pg.pages_df.rows[i].rec.id
    /\ (pc = "done" /\ pg.caller = "leads" /\ outcome = "returned")
          => result = SelectSeq(ToDict(LeadsRenamed(ld.leads_df)),
                         LAMBDA r : PassesList(r.lead_id, ld.lead_id_list))
    /\ (pg.caller = "leads" /\ ld.page_ids_all.vals # <<>> /\ ld.lead_id_list.list = <<>>)
          => outcome # "KeyError"

\* bulk_get_leads with page_id_list = [] and lead_id_list = [] has returned
\* Lead objects of two Page objects.
C31_Witness ==
    /\ pc = "done" /\ outcome = "returned"
    /\ ld.page_id_list = List(<<>>) /\ ld.lead_id_list = List(<<>>)
    /\ \E i, j \in 1..Len(result) : result[i].page_id # result[j].page_id
====
